---- MODULE Spec2Model ----
(***************************************************************************)
(* Tenant isolation (src/src/tenants/isolation.py): the task-local        *)
(* "current tenant" slot, the tenant_context scope guard, require_tenant,  *)
(* the tenant-aware query filter and the ASGI TenantMiddleware.            *)
(*                                                                         *)
(* Text is a sequence of one-character strings ("acme" is written          *)
(* <<"a","c","m","e">>, the empty string <<>>); bytes are sequences of     *)
(* byte values.  Optional[str] is None or Some(s).                         *)
(***************************************************************************)
EXTENDS Integers, Sequences, FiniteSets, TLC

\* ------------------------------------------------------------------ bounds
MaxTasks == 2
MaxDepth == 2
NumWorkers == 1

Tasks == 1..MaxTasks
Workers == 1..NumWorkers

\* ------------------------------------------------------- values and text
None == <<"None">>
Some(s) == <<"Some", s>>

Alphabet == {"X", "T", "x", "t", "-", ".", "a", "b", "h", "o", "s"}

\* Code points of the characters used (ASCII).
Ord(c) ==
  CASE c = "X" -> 88  [] c = "T" -> 84  [] c = "x" -> 120 [] c = "t" -> 116
    [] c = "-" -> 45  [] c = "." -> 46  [] c = "a" -> 97  [] c = "b" -> 98
    [] c = "h" -> 104 [] c = "o" -> 111 [] c = "s" -> 115

\* A byte that starts no valid UTF-8 sequence.
InvalidByte == 255

\* str.lower(), character by character.
LowerChar(c) == CASE c = "X" -> "x" [] c = "T" -> "t" [] OTHER -> c
Lower(s) == [i \in 1..Len(s) |-> LowerChar(s[i])]

\* str.encode(): UTF-8 of ASCII text is one byte per character.
Encode(s) == [i \in 1..Len(s) |-> Ord(s[i])]

\* bytes.decode(): fails on a byte that is not valid UTF-8.
Decodable(b) == \A i \in 1..Len(b) : \E c \in Alphabet : Ord(c) = b[i]
Decode(b) == [i \in 1..Len(b) |-> CHOOSE c \in Alphabet : Ord(c) = b[i]]

\* Python truthiness of an Optional[str]: None and "" are falsy.
Truthy(v) == v # None /\ v # Some(<<>>)

\* "." in host
HasDot(s) == \E i \in 1..Len(s) : s[i] = "."

\* host.split(".")[0]: the text before the first "."
FirstLabel(s) ==
  IF HasDot(s)
    THEN LET k == CHOOSE i \in 1..Len(s) :
                    s[i] = "." /\ \A j \in 1..(i - 1) : s[j] # "."
         IN SubSeq(s, 1, k - 1)
    ELSE s

\* dict(pairs).get(key, default): a later pair overrides an earlier one.
DictGet(pairs, key, default) ==
  LET hits == {i \in 1..Len(pairs) : pairs[i][1] = key}
  IN IF hits = {} THEN default
     ELSE pairs[CHOOSE i \in hits : \A j \in hits : j <= i][2]

\* TenantMiddleware.__init__: the header name is lower-cased and encoded.
MiddlewareInit(header_name) == Encode(Lower(header_name))

Ok(v) == <<"ok", v>>
Raised(e) == <<"raise", e>>

\* Variant of Resolve that looks at the host first and at the header only
\* when the host gives no label.
ResolveHostFirst(header_name, scope) ==
  LET hraw == DictGet(scope.headers, Encode(<<"h","o","s","t">>), <<>>)
      raw == DictGet(scope.headers, header_name, <<>>)
  IN IF ~Decodable(hraw) THEN Raised("UnicodeDecodeError")
     ELSE IF Decode(hraw) # <<>> /\ HasDot(Decode(hraw))
       THEN Ok(FirstLabel(Decode(hraw)))
       ELSE IF ~Decodable(raw) THEN Raised("UnicodeDecodeError")
            ELSE Ok(Decode(raw))

\* TenantMiddleware.__call__, lines 165-172: header first, then subdomain.
Resolve(header_name, scope) ==
  LET raw == DictGet(scope.headers, header_name, <<>>)
  IN IF ~Decodable(raw) THEN Raised("UnicodeDecodeError")
     ELSE LET tenant_id == Decode(raw)
          IN IF tenant_id # <<>> THEN Ok(tenant_id)
             ELSE LET hraw == DictGet(scope.headers, Encode(<<"h","o","s","t">>), <<>>)
                  IN IF ~Decodable(hraw) THEN Raised("UnicodeDecodeError")
                     ELSE LET host == Decode(hraw)
                          IN IF host # <<>> /\ HasDot(host)
                               THEN Ok(FirstLabel(host))
                               ELSE Ok(tenant_id)

\* ------------------------------------------------- plans and their limits
\* Plan and feature names are written as strings; nothing in the code
\* looks inside them.
TenantPlan == {"free", "starter", "professional", "enterprise"}

PlanLimits(max_users, max_storage_gb, max_api_calls_per_day, features) ==
  [max_users |-> max_users, max_storage_gb |-> max_storage_gb,
   max_api_calls_per_day |-> max_api_calls_per_day, features |-> features]

\* Variant of the catalog with no entry for the enterprise plan.
PLAN_LIMITS_paid_later ==
  [p \in {"free", "starter", "professional"} |->
     PlanLimits(3, 1, 1000, <<"basic_reports">>)]

\* Lines 37-62: the dict as the module defines it when it is imported.
PLAN_LIMITS ==
  [p \in TenantPlan |->
     CASE p = "free" ->
            PlanLimits(3, 1, 1000, <<"basic_reports">>)
       [] p = "starter" ->
            PlanLimits(10, 10, 10000,
                       <<"basic_reports", "api_access", "email_support">>)
       [] p = "professional" ->
            PlanLimits(50, 100, 100000,
                       <<"basic_reports", "api_access", "email_support",
                         "advanced_analytics", "integrations">>)
       [] p = "enterprise" ->
            PlanLimits(-1, -1, -1,
                       <<"basic_reports", "api_access", "email_support",
                         "advanced_analytics", "integrations", "sso",
                         "audit_logs", "sla">>)]

\* Lines 77-80: PLAN_LIMITS[self.plan] on the dict as it is now; a missing
\* key raises KeyError.
limits(plan_limits, plan) ==
  IF plan \in DOMAIN plan_limits THEN Ok(plan_limits[plan])
  ELSE Raised("KeyError")

\* feature in features, for a list
InList(x, list) == \E i \in 1..Len(list) : list[i] = x

\* Variant that looks at the first feature of the plan only.
has_feature_first(plan_limits, plan, feature) ==
  LET l == limits(plan_limits, plan)
  IN IF l[1] = "raise" THEN l
     ELSE Ok(l[2].features # <<>> /\ l[2].features[1] = feature)

\* Lines 82-84.
has_feature(plan_limits, plan, feature) ==
  LET l == limits(plan_limits, plan)
  IN IF l[1] = "raise" THEN l ELSE Ok(InList(feature, l[2].features))

\* Variant that lets a tenant at its limit add one more user.
can_add_user_inclusive(plan_limits, plan, current_count) ==
  LET l == limits(plan_limits, plan)
  IN IF l[1] = "raise" THEN l
     ELSE Ok(l[2].max_users = -1 \/ current_count <= l[2].max_users)

\* Lines 86-89.
can_add_user(plan_limits, plan, current_count) ==
  LET l == limits(plan_limits, plan)
  IN IF l[1] = "raise" THEN l
     ELSE LET max_users == l[2].max_users
          IN Ok(max_users = -1 \/ current_count < max_users)

\* The arguments the plan operations are called with.
MaxCount == 51
Counts == -1..MaxCount
Features ==
  {"basic_reports", "api_access", "email_support", "advanced_analytics",
   "integrations", "sso", "audit_logs", "sla", "white_label", ""}

\* ------------------------------------------------------------------ state
VARIABLES
  contexts,    \* context id -> value bound to current_tenant_var in it
  status,      \* task -> "new" | "suspended" | "running" | "done"
  frames,      \* task -> stack of open with-blocks and middleware calls
  header_name, \* TenantMiddleware.header_name
  plan_limits, \* the module-level dict PLAN_LIMITS
  scopes,      \* history: task -> stack of [id, before] of its open scopes
  base,        \* history: task -> value the task started with
  lastOp       \* history: the last operation, its argument and its result

vars ==
  <<contexts, status, frames, header_name, plan_limits, scopes, base, lastOp>>

\* Context 0 is the context of the worker threads themselves; context t is
\* the private context of task t.
MainContext == 0
ContextIds == {MainContext} \cup Tasks

TenantIds == {<<>>, <<"a">>, <<"b">>}
EntityTypes == {"Order"}
DefaultHeaderName == <<"X", "-", "T">>

\* ------------------------------------------------- current_tenant_var
\* A single slot shared by everything that runs on the worker threads.
SharedContext(t) == MainContext

\* The context a task's code runs in: asyncio runs every step of a task
\* inside the task's own Context, so a ContextVar is keyed by task.
ContextOfTask(t) == t

\* get_current_tenant(): current_tenant_var.get()
get_current_tenant(t) == contexts[ContextOfTask(t)]

\* set_current_tenant(v) by task t, on the contexts ctxs
set_current_tenant(ctxs, t, v) == [ctxs EXCEPT ![ContextOfTask(t)] = v]

\* ------------------------------------------------------ tenant_context
\* Variant of the entry that treats an empty identifier as "no tenant".
tenant_context_enter_nonempty(t, tenant_id) ==
  [previous |-> get_current_tenant(t),
   contexts |-> set_current_tenant(contexts, t, IF tenant_id = <<>> THEN None
                                       ELSE Some(tenant_id))]

\* Variant of the entry that does not remember the current value.
tenant_context_enter_no_save(t, tenant_id) ==
  [previous |-> None,
   contexts |-> set_current_tenant(contexts, t, Some(tenant_id))]

\* Lines 112-113: remember the current value, then set the new one.
tenant_context_enter(t, tenant_id) ==
  [previous |-> get_current_tenant(t),
   contexts |-> set_current_tenant(contexts, t, Some(tenant_id))]

\* Variant of the exit that clears the slot instead of restoring it.
tenant_context_exit_clear(ctxs, t, frame) == set_current_tenant(ctxs, t, None)

\* Variant of the exit that restores the remembered value only when the
\* slot still holds the identifier the block was entered with.
tenant_context_exit_if_untouched(ctxs, t, frame) ==
  IF ctxs[ContextOfTask(t)] = Some(frame.tenant_id)
    THEN set_current_tenant(ctxs, t, frame.previous)
    ELSE ctxs

\* Lines 116-117: the finally clause restores the remembered value.
tenant_context_exit(ctxs, t, frame) ==
  set_current_tenant(ctxs, t, frame.previous)

\* ------------------------------------------------------ require_tenant
\* Variant that checks for None only.
require_tenant_none_only(t) ==
  LET tenant_id == get_current_tenant(t)
  IN IF tenant_id = None THEN Raised("ValueError") ELSE Ok(tenant_id[2])

\* Variant that hands back an empty identifier instead of failing.
require_tenant_default(t) ==
  LET tenant_id == get_current_tenant(t)
  IN IF ~Truthy(tenant_id) THEN Ok(<<>>) ELSE Ok(tenant_id[2])

\* Lines 127-130.
require_tenant(t) ==
  LET tenant_id == get_current_tenant(t)
  IN IF ~Truthy(tenant_id) THEN Raised("ValueError") ELSE Ok(tenant_id[2])

\* ---------------------------------------------------- TenantAwareQuery
\* cls.organization_id == tenant_id
Predicate(cls, tenant_id) == <<"eq", cls, "organization_id", tenant_id>>

\* Variant that compares against a fixed identifier.
get_tenant_filter_fixed(t, cls) ==
  LET r == require_tenant(t)
  IN IF r[1] = "raise" THEN r ELSE Ok(Predicate(cls, <<"a">>))

\* Lines 143-144.
get_tenant_filter(t, cls) ==
  LET r == require_tenant(t)
  IN IF r[1] = "raise" THEN r ELSE Ok(Predicate(cls, r[2]))

\* query.filter(p): a query is the sequence of the filters applied to it.
Filter(query, p) == Append(query, p)

\* Line 149: the filter is computed before query.filter is called.
for_tenant(t, cls, query) ==
  LET f == get_tenant_filter(t, cls)
  IN IF f[1] = "raise" THEN f ELSE Ok(Filter(query, f[2]))

Queries == {<< <<"eq", "Order", "status", <<"o">> >> >>}

\* ---------------------------------------------------------- ASGI scopes
MaxHeaders == 2

HostName == Encode(<<"h", "o", "s", "t">>)
HeaderNames == {DefaultHeaderName, <<"x", "-", "t">>, <<"x", "-", "T">>}
WireNames == {Encode(n) : n \in HeaderNames} \cup {HostName}
WireValues ==
  {Encode(v) : v \in {<<>>, <<"a">>, <<"b">>, <<"a", ".", "b">>, <<".", "a">>}}
    \cup {<<InvalidByte>>}
HeaderLists == UNION {[1..n -> WireNames \X WireValues] : n \in 0..MaxHeaders}
ScopeTypes == {"http", "websocket"}

\* Every scope a server may hand to the middleware, within the bounds.
Scopes == [type : ScopeTypes, headers : HeaderLists]

\* The scopes used where requests run concurrently.
CoreHeaders ==
  {<<>>,
   << <<Encode(<<"x", "-", "t">>), Encode(<<"a">>)>> >>,
   << <<Encode(<<"x", "-", "t">>), Encode(<<"b">>)>> >>,
   << <<HostName, Encode(<<"a", ".", "b">>)>> >>,
   << <<Encode(<<"x", "-", "t">>), <<InvalidByte>> >> >>}
CoreScopes == [type : ScopeTypes, headers : CoreHeaders]

\* ---------------------------------------------------------------- Init
NoOp == [op |-> "init", task |-> 0, arg |-> <<>>, result |-> <<>>]

\* Line 15: default=None; nothing has run yet.
Init ==
  /\ contexts = [c \in ContextIds |-> None]
  /\ status = [t \in Tasks |-> "new"]
  /\ frames = [t \in Tasks |-> <<>>]
  /\ header_name = MiddlewareInit(DefaultHeaderName)
  /\ plan_limits = PLAN_LIMITS
  /\ scopes = [t \in Tasks |-> <<>>]
  /\ base = [t \in Tasks |-> None]
  /\ lastOp = NoOp

\* ------------------------------------------------------------- helpers
Top(s) == s[Len(s)]
Pop(s) == SubSeq(s, 1, Len(s) - 1)
Prefix(s, n) == SubSeq(s, 1, n)

Running(t) == status[t] = "running"

IsScopeKind(k) == k \in {"with", "mw_http"}
IsScope(f) == IsScopeKind(f.kind)

\* The value the scope chain of task t calls for: the identifier of its
\* innermost open scope, else the value the task started with.
Expected(t) ==
  IF scopes[t] = <<>> THEN base[t] ELSE Some(Top(scopes[t]).id)

\* A task is inside a scope when it has opened one itself or was started
\* inside one.
InScope(t) == scopes[t] # <<>> \/ base[t] # None

Op(o, t, a, r) == [op |-> o, task |-> t, arg |-> a, result |-> r]

\* What the history keeps of a scheduling step.
Scheduled == Op("schedule", 0, <<>>, <<>>)

\* Variant of Finally without try/finally: the value is restored only when
\* the body completes normally.
FinallyOnReturnOnly(ctxs, t, f, mode) ==
  IF IsScope(f) /\ mode = "return" THEN tenant_context_exit(ctxs, t, f)
  ELSE ctxs

\* Lines 114-117: what leaving frame f does to the contexts, however the
\* body ended: a with-block runs its finally clause, a call of the wrapped
\* application (line 161) just returns.
Finally(ctxs, t, f, mode) ==
  IF IsScope(f) THEN tenant_context_exit(ctxs, t, f) ELSE ctxs

\* The contexts after task t has left its k innermost frames, innermost
\* first.
RECURSIVE Unwound(_, _, _, _, _)
Unwound(ctxs, t, fs, k, mode) ==
  IF k = 0 THEN ctxs
  ELSE Unwound(Finally(ctxs, t, Top(fs), mode), t, Pop(fs), k - 1, mode)

ScopesIn(fs) == Cardinality({i \in 1..Len(fs) : IsScope(fs[i])})

\* Task t leaves its k innermost frames in the given way.  The history
\* keeps the outermost frame left, the value that was current just before
\* leaving, and the value that was current before the outermost scope
\* left was entered (None when no scope was left).
Leave(t, k, mode) ==
  LET fs == frames[t]
      kept == Prefix(fs, Len(fs) - k)
      n == ScopesIn(kept)
      f == fs[Len(fs) - k + 1]
  IN /\ frames' = [frames EXCEPT ![t] = kept]
     /\ contexts' = Unwound(contexts, t, fs, k, mode)
     /\ scopes' = [scopes EXCEPT ![t] = Prefix(@, n)]
     /\ lastOp' = Op("exit", t,
                     <<f.kind, mode, f.tenant_id, k, get_current_tenant(t)>>,
                     IF n < Len(scopes[t]) THEN scopes[t][n + 1].before
                     ELSE None)

\* Entering a with tenant_context(tenant_id) block.
Enter(t, kind, tenant_id) ==
  LET e == tenant_context_enter(t, tenant_id)
  IN /\ contexts' = e.contexts
     /\ frames' = [frames EXCEPT ![t] = Append(@,
                     [kind |-> kind, tenant_id |-> tenant_id,
                      previous |-> e.previous])]
     /\ scopes' = [scopes EXCEPT ![t] = Append(@,
                     [id |-> tenant_id, before |-> get_current_tenant(t)])]

\* A worker is free to run one more task.
WorkerFree == Cardinality({u \in Tasks : status[u] = "running"}) < NumWorkers

\* ------------------------------------------------------- task lifecycle
\* The server creates a task for a request: the task gets a copy of the
\* context of its creator, here the main context.
StartTask(t) ==
  /\ status[t] = "new"
  /\ status' = [status EXCEPT ![t] = "suspended"]
  /\ contexts' = [contexts EXCEPT ![ContextOfTask(t)] = contexts[MainContext]]
  /\ base' = [base EXCEPT ![t] = None]
  /\ lastOp' = Scheduled
  /\ UNCHANGED <<frames, header_name, plan_limits, scopes>>

\* Variant of task creation that runs the child in a fresh copy of the
\* main context instead of a copy of its parent's.
SpawnInMainContext(p, c) ==
  /\ Running(p)
  /\ status[c] = "new"
  /\ status' = [status EXCEPT ![c] = "suspended"]
  /\ contexts' = [contexts EXCEPT ![ContextOfTask(c)] = contexts[MainContext]]
  /\ base' = [base EXCEPT ![c] = Expected(p)]
  /\ lastOp' = Op("spawn", p, c, <<>>)
  /\ UNCHANGED <<frames, header_name, plan_limits, scopes>>

\* A running task creates a task: the child gets a copy of the parent's
\* context as it is now.
Spawn(p, c) ==
  /\ Running(p)
  /\ status[c] = "new"
  /\ status' = [status EXCEPT ![c] = "suspended"]
  /\ contexts' = [contexts EXCEPT
                    ![ContextOfTask(c)] = contexts[ContextOfTask(p)]]
  /\ base' = [base EXCEPT ![c] = Expected(p)]
  /\ lastOp' = Op("spawn", p, c, <<>>)
  /\ UNCHANGED <<frames, header_name, plan_limits, scopes>>

\* A free worker picks up a task that is ready to run.
Resume(t) ==
  /\ status[t] = "suspended"
  /\ WorkerFree
  /\ status' = [status EXCEPT ![t] = "running"]
  /\ lastOp' = Scheduled
  /\ UNCHANGED <<contexts, frames, header_name, plan_limits, scopes, base>>

\* The task reaches a suspension point (an await) and leaves its worker.
Suspend(t) ==
  /\ Running(t)
  /\ status' = [status EXCEPT ![t] = "suspended"]
  /\ lastOp' = Scheduled
  /\ UNCHANGED <<contexts, frames, header_name, plan_limits, scopes, base>>

\* The task's coroutine returns.
Finish(t) ==
  /\ Running(t)
  /\ frames[t] = <<>>
  /\ status' = [status EXCEPT ![t] = "done"]
  /\ lastOp' = Scheduled
  /\ UNCHANGED <<contexts, frames, header_name, plan_limits, scopes, base>>

\* ------------------------------------------------------ tenant context
\* current(): get_current_tenant()
Current(t) ==
  /\ Running(t)
  /\ lastOp' = Op("current", t, <<>>, get_current_tenant(t))
  /\ UNCHANGED <<contexts, status, frames, header_name, plan_limits, scopes, base>>

\* set_current_tenant(v) called directly by the code of task t.
SetCurrentTenant(t, v) ==
  /\ Running(t)
  /\ contexts' = set_current_tenant(contexts, t, v)
  /\ lastOp' = Op("set_current_tenant", t, v, <<>>)
  /\ UNCHANGED <<status, frames, header_name, plan_limits, scopes, base>>

\* with tenant_context(tenant_id): the block is entered.
EnterScope(t, tenant_id) ==
  /\ Running(t)
  /\ Len(frames[t]) < MaxDepth
  /\ Enter(t, "with", tenant_id)
  /\ lastOp' = Op("enter", t, tenant_id, <<>>)
  /\ UNCHANGED <<status, header_name, plan_limits, base>>

\* The body of the innermost block (or the wrapped application) completes
\* normally.
ExitScope(t) ==
  /\ Running(t)
  /\ frames[t] # <<>>
  /\ Leave(t, 1, "return")
  /\ UNCHANGED <<status, header_name, plan_limits, base>>

\* The body of the innermost block raises, or returns early: the k
\* innermost blocks are left in one go, up to the except clause that
\* handles the exception or the function the return leaves.
Raise(t, how, k) ==
  /\ Running(t)
  /\ k \in 1..Len(frames[t])
  /\ Leave(t, k, how)
  /\ UNCHANGED <<status, header_name, plan_limits, base>>

\* The task is cancelled while it waits at a suspension point inside a
\* block: when it next runs, CancelledError is thrown into it there and
\* unwinds its k innermost blocks.
Cancel(t, k) ==
  /\ status[t] = "suspended"
  /\ WorkerFree
  /\ k \in 1..Len(frames[t])
  /\ status' = [status EXCEPT ![t] = "running"]
  /\ Leave(t, k, "cancelled")
  /\ UNCHANGED <<header_name, plan_limits, base>>

\* A call that returns a value or raises to its caller; it writes nothing.
Call(t, name, arg, r) ==
  /\ Running(t)
  /\ lastOp' = Op(name, t, arg, r)
  /\ UNCHANGED <<contexts, status, frames, header_name, plan_limits, scopes, base>>

Require(t) == Call(t, "require_tenant", <<>>, require_tenant(t))

GetTenantFilter(t, cls) ==
  Call(t, "get_tenant_filter", cls, get_tenant_filter(t, cls))

ForTenant(t, cls, query) ==
  Call(t, "for_tenant", <<cls, query>>, for_tenant(t, cls, query))

\* ------------------------------------------------------ Tenant and plans
\* The methods of a Tenant whose plan is plan; they read the catalog and
\* write nothing.
PlanCall(name, arg, r) ==
  /\ lastOp' = Op(name, 0, arg, r)
  /\ UNCHANGED <<contexts, status, frames, header_name, plan_limits, scopes, base>>

Limits(plan) == PlanCall("limits", plan, limits(plan_limits, plan))

HasFeature(plan, feature) ==
  PlanCall("has_feature", <<plan, feature>>,
           has_feature(plan_limits, plan, feature))

CanAddUser(plan, current_count) ==
  PlanCall("can_add_user", <<plan, current_count>>,
           can_add_user(plan_limits, plan, current_count))

\* ---------------------------------------------------- TenantMiddleware
\* Variant of __call__ without the test of lines 160-162: every scope is
\* treated as an http request.
MiddlewareAnyScope(t, scope, seen) ==
  /\ Running(t)
  /\ frames[t] = <<>>
  /\ LET r == Resolve(header_name, scope)
     IN /\ lastOp' = Op("middleware", t, seen, r)
        /\ IF r[1] = "raise"
             THEN /\ status' = [status EXCEPT ![t] = "done"]
                  /\ UNCHANGED <<contexts, frames, scopes>>
             ELSE /\ Enter(t, "mw_http", r[2])
                  /\ UNCHANGED status
  /\ UNCHANGED <<header_name, plan_limits, base>>

\* TenantMiddleware.__call__ up to the call of the wrapped application;
\* the return of the application is ExitScope, Raise or Cancel.  The
\* server calls the middleware first thing in the task of a request, so
\* an exception raised while resolving leaves __call__ and ends the task.
\* seen is what the history records about the scope.
Middleware(t, scope, seen) ==
  /\ Running(t)
  /\ frames[t] = <<>>
  /\ IF scope.type # "http"
       THEN /\ frames' = [frames EXCEPT ![t] = Append(@,
                            [kind |-> "mw_other", tenant_id |-> <<>>,
                             previous |-> None])]
            /\ lastOp' = Op("middleware", t, seen, <<"passthrough">>)
            /\ UNCHANGED <<contexts, scopes, status>>
       ELSE LET r == Resolve(header_name, scope)
            IN /\ lastOp' = Op("middleware", t, seen, r)
               /\ IF r[1] = "raise"
                    THEN /\ status' = [status EXCEPT ![t] = "done"]
                         /\ UNCHANGED <<contexts, frames, scopes>>
                    ELSE /\ Enter(t, "mw_http", r[2])
                         /\ UNCHANGED status
  /\ UNCHANGED <<header_name, plan_limits, base>>

MwCall(t, scope) == Middleware(t, scope, scope.type)

\* ----------------------------------------------------------------- Spec
Next ==
  \/ \E t \in Tasks : StartTask(t)
  \/ \E p, c \in Tasks : Spawn(p, c)
  \/ \E t \in Tasks : Resume(t)
  \/ \E t \in Tasks : Suspend(t)
  \/ \E t \in Tasks : Finish(t)
  \/ \E t \in Tasks : Current(t)
  \/ \E t \in Tasks, id \in TenantIds : EnterScope(t, id)
  \/ \E t \in Tasks : ExitScope(t)
  \/ \E t \in Tasks, how \in {"early_return", "exception"}, k \in 1..MaxDepth :
       Raise(t, how, k)
  \/ \E t \in Tasks, k \in 1..MaxDepth : Cancel(t, k)
  \/ \E t \in Tasks : Require(t)
  \/ \E t \in Tasks, cls \in EntityTypes : GetTenantFilter(t, cls)
  \/ \E t \in Tasks, cls \in EntityTypes, q \in Queries : ForTenant(t, cls, q)
  \/ \E t \in Tasks, scope \in CoreScopes : MwCall(t, scope)

Spec == Init /\ [][Next]_vars

\* ------------------------------------------------- one request at a time
\* The middleware serving requests one after the other in one task, over
\* every scope within the bounds; the history keeps the whole scope.
RequestTask == CHOOSE t \in Tasks : \A u \in Tasks : t <= u

MwRequest(t, scope) == Middleware(t, scope, scope)

NextMw ==
  \/ StartTask(RequestTask)
  \/ Resume(RequestTask)
  \/ /\ Running(RequestTask) /\ frames[RequestTask] = <<>>
     /\ \E scope \in Scopes : MwRequest(RequestTask, scope)
  \/ ExitScope(RequestTask)

SpecMw == Init /\ [][NextMw]_vars

\* ------------------------------------------------------ plans (SpecPlan)
\* The plan operations, on every plan and argument within the bounds,
\* interleaved with the tenant-context operations of one task.
NextPlan ==
  \/ \E plan \in TenantPlan : Limits(plan)
  \/ \E plan \in TenantPlan, feature \in Features : HasFeature(plan, feature)
  \/ \E plan \in TenantPlan, n \in Counts : CanAddUser(plan, n)
  \/ StartTask(RequestTask)
  \/ Resume(RequestTask)
  \/ \E id \in TenantIds : EnterScope(RequestTask, id)
  \/ ExitScope(RequestTask)
  \/ Require(RequestTask)

SpecPlan == Init /\ [][NextPlan]_vars

\* --------------------------------------------- inside a request (SpecReq)
\* One task serving requests one after the other, over every scope
\* within the bounds, with the application calling the tenant functions
\* while the request is being served.
NextReq ==
  \/ StartTask(RequestTask)
  \/ Resume(RequestTask)
  \/ /\ Running(RequestTask) /\ frames[RequestTask] = <<>>
     /\ \E scope \in Scopes : MwRequest(RequestTask, scope)
  \/ ExitScope(RequestTask)
  \/ Current(RequestTask)
  \/ Require(RequestTask)
  \/ \E cls \in EntityTypes : GetTenantFilter(RequestTask, cls)
  \/ \E cls \in EntityTypes, q \in Queries : ForTenant(RequestTask, cls, q)

SpecReq == Init /\ [][NextReq]_vars

\* ------------------------------------- direct writes to the slot (SpecRaw)
\* One task that, next to opening and leaving tenant_context blocks in
\* every way, calls set_current_tenant directly with any value, and asks
\* for the current tenant and the tenant filter.
OptionalTenantIds == {None} \cup {Some(id) : id \in TenantIds}

NextRaw ==
  \/ StartTask(RequestTask)
  \/ Resume(RequestTask)
  \/ Suspend(RequestTask)
  \/ Current(RequestTask)
  \/ \E v \in OptionalTenantIds : SetCurrentTenant(RequestTask, v)
  \/ \E id \in TenantIds : EnterScope(RequestTask, id)
  \/ ExitScope(RequestTask)
  \/ \E how \in {"early_return", "exception"}, k \in 1..MaxDepth :
       Raise(RequestTask, how, k)
  \/ \E k \in 1..MaxDepth : Cancel(RequestTask, k)
  \/ Require(RequestTask)
  \/ \E cls \in EntityTypes : GetTenantFilter(RequestTask, cls)

SpecRaw == Init /\ [][NextRaw]_vars

\* ================================================================ claims
Live(t) == status[t] \in {"running", "suspended"}
InnerId(t) == Top(scopes[t]).id

\* C1: of two tasks that are each inside a scope, with different
\* identifiers, each sees its own identifier as the current tenant, in
\* every interleaving; so does every current() either of them observes.
C1_TasksIsolated ==
  /\ \A a, b \in Tasks :
       (a # b /\ Live(a) /\ Live(b) /\ scopes[a] # <<>> /\ scopes[b] # <<>>
          /\ InnerId(a) # InnerId(b))
       => /\ get_current_tenant(a) = Some(InnerId(a))
          /\ get_current_tenant(b) = Some(InnerId(b))
  /\ (lastOp.op = "current" /\ scopes[lastOp.task] # <<>>)
       => lastOp.result = Some(InnerId(lastOp.task))

\* One task waits inside its scope; the other was resumed on the one
\* worker there is, the worker the first ran on, is inside a scope of
\* another tenant and has just observed current().
C1_Witness ==
  \E a, b \in Tasks :
    /\ a # b /\ status[a] = "suspended" /\ status[b] = "running"
    /\ Cardinality(Workers) = 1
    /\ scopes[a] # <<>> /\ scopes[b] # <<>> /\ InnerId(a) # InnerId(b)
    /\ lastOp.op = "current" /\ lastOp.task = b

\* C2: stack discipline of nested scopes within one task: whenever a task
\* leaves a scope, however its body ended, its current tenant becomes the
\* value that was current just before that scope was entered; and that
\* value, for a nested scope, is the identifier of the enclosing scope.
C2_StackDiscipline ==
  [][\A t \in Tasks :
       LET n == Len(scopes'[t])
       IN (n < Len(scopes[t]) /\ scopes'[t] = Prefix(scopes[t], n))
          => /\ get_current_tenant(t)' = scopes[t][n + 1].before
             /\ \A i \in 2..Len(scopes[t]) :
                  scopes[t][i].before = Some(scopes[t][i - 1].id)]_vars

\* An exception has just left the inner of two nested scopes of different
\* tenants, and the task is back in the outer one, which is still open.
C2_Witness ==
  /\ lastOp.op = "exit" /\ lastOp.arg[1] = "with" /\ lastOp.arg[2] = "exception"
  /\ Len(scopes[lastOp.task]) = 1
  /\ lastOp.arg[3] # InnerId(lastOp.task)
  /\ lastOp.result = Some(InnerId(lastOp.task))

\* C3: at every point the current tenant of every task is the identifier
\* of the innermost scope open for it, absent when none is (a task started
\* inside a scope of its parent has that scope as its outermost one).
C3_InnermostScope ==
  \A t \in Tasks :
    /\ get_current_tenant(t) = Expected(t)
    /\ ~InScope(t) => get_current_tenant(t) = None

\* A task has released its only scope and is back to no tenant while
\* another task is two scopes deep.
C3_Witness ==
  /\ lastOp.op = "exit" /\ IsScopeKind(lastOp.arg[1])
  /\ ~InScope(lastOp.task)
  /\ \E u \in Tasks : u # lastOp.task /\ Len(scopes[u]) = 2

\* C4 as stated: require() fails if and only if no scope is active for the
\* calling task, and returns the current identifier otherwise.
C4_RequireIffNoScope ==
  lastOp.op = "require_tenant"
    => /\ lastOp.result[1] = "raise" <=> ~InScope(lastOp.task)
       /\ InScope(lastOp.task) => lastOp.result = Ok(Expected(lastOp.task)[2])

\* C4, amended: require() fails (with ValueError, the code's
\* NoTenantContext) if and only if the calling task has no active scope
\* or its innermost active scope carries the empty identifier; otherwise
\* it returns the identifier of the innermost active scope.
C4_RequireIffAbsentOrEmpty ==
  lastOp.op = "require_tenant"
    => LET cur == Expected(lastOp.task)
       IN /\ lastOp.result[1] = "raise" <=> (cur = None \/ cur = Some(<<>>))
          /\ lastOp.result[1] = "raise" => lastOp.result = Raised("ValueError")
          /\ lastOp.result[1] = "ok" => Some(lastOp.result[2]) = cur

\* require() has just failed inside a scope entered with the empty
\* identifier.
C4_Witness ==
  /\ lastOp.op = "require_tenant" /\ lastOp.result[1] = "raise"
  /\ scopes[lastOp.task] # <<>> /\ InnerId(lastOp.task) = <<>>

\* C5: a scope is released on every exit path of its body (normal return,
\* early return, exception, cancellation at a suspension point): once the
\* guard has exited, the task's current tenant is the value it had just
\* before the guard was entered, and the task's scope chain is the one it
\* had then; for tenant_context and for the middleware's request scope.
C5_ReleasedOnEveryExit ==
  (/\ lastOp.op = "exit"
   /\ IsScopeKind(lastOp.arg[1])
   /\ lastOp.arg[2] \in {"return", "early_return", "exception", "cancelled"})
    => /\ get_current_tenant(lastOp.task) = lastOp.result
       /\ lastOp.result = Expected(lastOp.task)

\* The request scope of the middleware has just been left because the task
\* was cancelled, and a tenant other than none was restored.
C5_Witness ==
  /\ lastOp.op = "exit" /\ lastOp.arg[1] = "mw_http"
  /\ lastOp.arg[2] = "cancelled"
  /\ lastOp.result # None
  /\ get_current_tenant(lastOp.task) = lastOp.result

\* C6: a step in which one task enters or releases a scope leaves the
\* current tenant of every other task as it was.
C6_OtherTasksUntouched ==
  [][\A t \in Tasks :
       scopes'[t] # scopes[t]
         => \A u \in Tasks \ {t} :
              get_current_tenant(u)' = get_current_tenant(u)]_vars

\* A task has just entered or left a scope while a task it spawned
\* earlier, inside a scope, holds a tenant of its own.
C6_Witness ==
  /\ lastOp.op \in {"enter", "exit"}
  /\ \E u \in Tasks \ {lastOp.task} :
       /\ Live(u) /\ base[u] # None
       /\ get_current_tenant(u) # get_current_tenant(lastOp.task)

\* C7: get_tenant_filter and for_tenant called with no active scope fail
\* with ValueError (the code's NoTenantContext): no predicate and no
\* filtered query is produced, the error propagates to the caller, and the
\* current tenant stays absent.
C7_NoFilterOutsideScope ==
  (lastOp.op \in {"get_tenant_filter", "for_tenant"} /\ ~InScope(lastOp.task))
    => /\ lastOp.result = Raised("ValueError")
       /\ get_current_tenant(lastOp.task) = None

\* for_tenant has just failed for a task outside any scope.
C7_Witness ==
  /\ lastOp.op = "for_tenant" /\ ~InScope(lastOp.task)
  /\ lastOp.result[1] = "raise"

\* C8: inside a scope with a non-empty identifier, get_tenant_filter
\* yields organization_id == the identifier of the task's innermost active
\* scope; and after a scope entered from the no-scope state has exited,
\* current() is absent.
C8_FilterNamesInnermost ==
  /\ (/\ lastOp.op = "get_tenant_filter"
      /\ scopes[lastOp.task] # <<>>
      /\ InnerId(lastOp.task) # <<>>)
       => lastOp.result = Ok(Predicate(lastOp.arg, InnerId(lastOp.task)))
  /\ (/\ lastOp.op = "exit" /\ IsScopeKind(lastOp.arg[1])
      /\ ~InScope(lastOp.task))
       => get_current_tenant(lastOp.task) = None

\* The filter has just been built two scopes deep, for the inner tenant.
C8_Witness ==
  /\ lastOp.op = "get_tenant_filter"
  /\ Len(scopes[lastOp.task]) = 2
  /\ scopes[lastOp.task][1].id = <<"a">>
  /\ lastOp.result = Ok(Predicate("Order", <<"b">>))

\* C9: a scope entered with the empty identifier is a scope: inside it
\* current() is the empty identifier, which is not the absent value, and
\* leaving it restores the value current before it was entered.
C9_EmptyIdentifierScope ==
  /\ \A t \in Tasks :
       (scopes[t] # <<>> /\ InnerId(t) = <<>>)
         => get_current_tenant(t) = Some(<<>>) /\ get_current_tenant(t) # None
  /\ (lastOp.op = "current" /\ scopes[lastOp.task] # <<>>
        /\ InnerId(lastOp.task) = <<>>)
       => lastOp.result = Some(<<>>)
  /\ (lastOp.op = "exit" /\ IsScopeKind(lastOp.arg[1]) /\ lastOp.arg[3] = <<>>)
       => get_current_tenant(lastOp.task) = lastOp.result

\* current() has just been observed inside a scope with the empty
\* identifier that was entered inside a scope of tenant "a".
C9_Witness ==
  /\ lastOp.op = "current" /\ lastOp.result = Some(<<>>)
  /\ Len(scopes[lastOp.task]) = 2
  /\ scopes[lastOp.task][1].id = <<"a">>

\* ------------------------------------------------ the resolver (SpecMw)
\* The request the middleware has just been called with, and its headers
\* read as the spec reads them: the tenant header is the last header
\* named header_name, the host the last header named "host".
MwHttp == lastOp.op = "middleware" /\ lastOp.arg.type = "http"
Named(hdrs, name) == {i \in 1..Len(hdrs) : hdrs[i][1] = name}
IsLast(hdrs, name, i) ==
  i \in Named(hdrs, name) /\ \A j \in Named(hdrs, name) : j <= i
AllDecodable(hdrs) == \A i \in 1..Len(hdrs) : Decodable(hdrs[i][2])
DottedHost(hdrs) ==
  \E i \in 1..Len(hdrs) : IsLast(hdrs, HostName, i) /\ HasDot(Decode(hdrs[i][2]))
HostLabel(hdrs) ==
  LET i == CHOOSE k \in 1..Len(hdrs) : IsLast(hdrs, HostName, k)
      host == Decode(hdrs[i][2])
  IN SubSeq(host, 1, (CHOOSE k \in 1..Len(host) :
                        host[k] = "." /\ \A j \in 1..(k - 1) : host[j] # ".") - 1)

\* C10 as stated, for requests whose header values are all valid text and
\* that carry the tenant header at most once: the header's value when the
\* header is present, else the first label of the host, else empty.
C10_HeaderThenHost ==
  LET hdrs == lastOp.arg.headers
  IN (MwHttp /\ AllDecodable(hdrs) /\ Cardinality(Named(hdrs, header_name)) <= 1)
       => IF Named(hdrs, header_name) # {}
            THEN \E i \in Named(hdrs, header_name) :
                   lastOp.result = Ok(Decode(hdrs[i][2]))
            ELSE IF DottedHost(hdrs)
              THEN lastOp.result = Ok(HostLabel(hdrs))
              ELSE lastOp.result = Ok(<<>>)

\* C10, amended: for an http request the resolver yields the value of the
\* tenant header (the last header whose name is the lower-cased configured
\* name) when that header is present with a non-empty value; otherwise the
\* first dot-delimited label of the host (the last "host" header) when the
\* host contains a "."; otherwise the empty identifier.  A non-empty
\* header value always takes precedence over the host.  A consulted value
\* that is not valid UTF-8 makes the call fail with UnicodeDecodeError.
C10_NonEmptyHeaderThenHost ==
  LET hdrs == lastOp.arg.headers
      tenantAt == {i \in 1..Len(hdrs) : IsLast(hdrs, header_name, i)}
      hostAt == {i \in 1..Len(hdrs) : IsLast(hdrs, HostName, i)}
      badTenant == \E i \in tenantAt : ~Decodable(hdrs[i][2])
      hasTenant == \E i \in tenantAt : hdrs[i][2] # <<>>
      badHost == \E i \in hostAt : ~Decodable(hdrs[i][2])
  IN MwHttp =>
       IF badTenant THEN lastOp.result = Raised("UnicodeDecodeError")
       ELSE IF hasTenant
         THEN \E i \in tenantAt : lastOp.result = Ok(Decode(hdrs[i][2]))
         ELSE IF badHost THEN lastOp.result = Raised("UnicodeDecodeError")
              ELSE IF DottedHost(hdrs) THEN lastOp.result = Ok(HostLabel(hdrs))
                   ELSE lastOp.result = Ok(<<>>)

\* A request with tenant header "b" and host "a.b" has just resolved to "b".
C10_Witness ==
  /\ MwHttp
  /\ \E i, j \in 1..Len(lastOp.arg.headers) :
       /\ lastOp.arg.headers[i] = <<header_name, Encode(<<"b">>)>>
       /\ lastOp.arg.headers[j] = <<HostName, Encode(<<"a", ".", "b">>)>>
  /\ lastOp.result = Ok(<<"b">>)
  /\ get_current_tenant(lastOp.task) = Some(<<"b">>)

\* ------------------------------------------------------ plans (SpecPlan)
\* C11: for every plan and every non-negative current count,
\* can_add_user is true exactly when the plan's max_users is -1 or the
\* count is below max_users: enterprise always true; free (max_users 3)
\* true for 0, 1, 2 and false from 3 on.
C11_CanAddUser ==
  (lastOp.op = "can_add_user" /\ lastOp.arg[2] >= 0)
    => LET plan == lastOp.arg[1]
           n == lastOp.arg[2]
           maxUsers == plan_limits[plan].max_users
       IN /\ lastOp.result[1] = "ok"
          /\ lastOp.result[2] <=> (maxUsers = -1 \/ n < maxUsers)
          /\ plan = "enterprise" => maxUsers = -1 /\ lastOp.result[2]
          /\ plan = "free" => maxUsers = 3 /\ (lastOp.result[2] <=> n \in {0, 1, 2})

\* A free tenant with exactly three users has just been refused.
C11_Witness ==
  /\ lastOp.op = "can_add_user" /\ lastOp.arg = <<"free", 3>>
  /\ lastOp.result = Ok(FALSE)

\* The feature sets the specification's catalog gives the four tiers.
CatalogFeatures(plan) ==
  CASE plan = "free" -> {"basic_reports"}
    [] plan = "starter" -> {"basic_reports", "api_access", "email_support"}
    [] plan = "professional" ->
         {"basic_reports", "api_access", "email_support",
          "advanced_analytics", "integrations"}
    [] plan = "enterprise" ->
         {"basic_reports", "api_access", "email_support",
          "advanced_analytics", "integrations", "sso", "audit_logs", "sla"}

\* C12: for every plan and every feature name, has_feature is true
\* exactly when the feature is in the set the catalog gives that plan; a
\* free tenant lacks sso and an enterprise tenant has it.
C12_HasFeature ==
  lastOp.op = "has_feature"
    => LET plan == lastOp.arg[1]
           feature == lastOp.arg[2]
       IN /\ lastOp.result[1] = "ok"
          /\ lastOp.result[2] <=> feature \in CatalogFeatures(plan)
          /\ lastOp.arg = <<"free", "sso">> => ~lastOp.result[2]
          /\ lastOp.arg = <<"enterprise", "sso">> => lastOp.result[2]

\* An enterprise tenant has just been found to have sso.
C12_Witness ==
  /\ lastOp.op = "has_feature" /\ lastOp.arg = <<"enterprise", "sso">>
  /\ lastOp.result = Ok(TRUE)

\* C13: the catalog has an entry for each of the four plans in every
\* reachable state, no operation of the module changes it, and a lookup
\* of a plan always yields the limits and features the plan was given
\* when the module was loaded.
C13_CatalogTotalAndFixed ==
  /\ DOMAIN plan_limits = TenantPlan
  /\ plan_limits = PLAN_LIMITS
  /\ lastOp.op = "limits"
       => /\ lastOp.result[1] = "ok"
          /\ lastOp.result[2] = PLAN_LIMITS[lastOp.arg]
          /\ Len(lastOp.result[2].features)
               = Cardinality(CatalogFeatures(lastOp.arg))

\* The limits of the enterprise plan have just been looked up by a task
\* that had entered and left scopes before.
C13_Witness ==
  /\ lastOp.op = "limits" /\ lastOp.arg = "enterprise"
  /\ lastOp.result[1] = "ok" /\ lastOp.result[2].max_users = -1
  /\ status[RequestTask] = "running"
  /\ contexts[ContextOfTask(RequestTask)] # None

\* --------------------------------------------- inside a request (SpecReq)
\* The task is being served inside the request scope of the middleware,
\* and that scope carries the empty identifier.
InEmptyRequest(t) ==
  /\ frames[t] # <<>>
  /\ Top(frames[t]).kind = "mw_http" /\ Top(frames[t]).tenant_id = <<>>

\* C14: an http request with no tenant header and no dotted host (all its
\* consulted values valid text) resolves to the empty identifier without
\* an error: the application is invoked inside a scope whose identifier
\* is empty.  Inside such a request require_tenant, get_tenant_filter and
\* for_tenant fail with ValueError (the code's NoTenantContext), and no
\* predicate is ever built on the empty identifier.
C14_EmptyResolvedLater ==
  /\ (/\ MwHttp
      /\ Named(lastOp.arg.headers, header_name) = {}
      /\ AllDecodable(lastOp.arg.headers)
      /\ ~DottedHost(lastOp.arg.headers))
       => /\ lastOp.result = Ok(<<>>)
          /\ Running(lastOp.task)
          /\ InEmptyRequest(lastOp.task)
          /\ get_current_tenant(lastOp.task) = Some(<<>>)
  /\ (/\ lastOp.op \in {"require_tenant", "get_tenant_filter", "for_tenant"}
      /\ InEmptyRequest(lastOp.task))
       => lastOp.result = Raised("ValueError")
  /\ (lastOp.op = "get_tenant_filter" /\ lastOp.result[1] = "ok")
       => lastOp.result[2][4] # <<>>
  /\ (lastOp.op = "for_tenant" /\ lastOp.result[1] = "ok")
       => \A i \in 1..Len(lastOp.result[2]) :
            lastOp.result[2][i][3] = "organization_id"
              => lastOp.result[2][i][4] # <<>>

\* The application, invoked for a request that resolved to the empty
\* identifier, has just asked for the tenant filter and got the error.
C14_Witness ==
  /\ lastOp.op = "get_tenant_filter"
  /\ InEmptyRequest(lastOp.task)
  /\ get_current_tenant(lastOp.task) = Some(<<>>)
  /\ lastOp.result = Raised("ValueError")

\* ---------------------------------------------- header names (SpecMw)
\* Two header names that differ in letter case only.
SameNameIgnoringCase(a, b) ==
  Decodable(a) /\ Decodable(b) /\ Lower(Decode(a)) = Lower(Decode(b))

\* C15 as stated: matching of the tenant header name ignores letter case.
\* Every casing of the configured name gives the same middleware; and an
\* http request that carries the tenant header once, under any casing of
\* its name, with a non-empty value that is valid text, resolves to that
\* value.
C15_HeaderNameIgnoresCase ==
  /\ \A n \in HeaderNames : MiddlewareInit(n) = header_name
  /\ MwHttp
       => LET hdrs == lastOp.arg.headers
              carried == {i \in 1..Len(hdrs) :
                            SameNameIgnoringCase(hdrs[i][1], header_name)}
          IN \A i \in carried :
               (carried = {i} /\ hdrs[i][2] # <<>> /\ Decodable(hdrs[i][2]))
                 => lastOp.result = Ok(Decode(hdrs[i][2]))

\* A request carrying the tenant header as "X-T: b" and the host "a.b"
\* has been resolved to tenant "a", and the application runs as "a".
C15_Witness ==
  /\ MwHttp
  /\ lastOp.arg.headers =
       << <<Encode(<<"X", "-", "T">>), Encode(<<"b">>)>>,
          <<HostName, Encode(<<"a", ".", "b">>)>> >>
  /\ lastOp.result = Ok(<<"a">>)
  /\ get_current_tenant(lastOp.task) = Some(<<"a">>)

\* ------------------------------------------------ other scopes (Spec)
\* C16: called with a scope whose type is not "http", the middleware
\* resolves nothing and enters no scope: it calls the application once,
\* the call leaves the task's current tenant as it was; while the
\* application runs (with no scope of its own open) it sees the value
\* that was current before the call, and that value is current again once
\* the call has returned, however it ended.
C16_OtherScopesPassThrough ==
  [][\A t \in Tasks :
       /\ (lastOp'.op = "middleware" /\ lastOp'.task = t /\ lastOp'.arg # "http")
            => /\ lastOp'.result = <<"passthrough">>
               /\ Len(frames'[t]) = Len(frames[t]) + 1
               /\ Top(frames'[t]).kind = "mw_other"
               /\ scopes' = scopes
               /\ contexts' = contexts
               /\ get_current_tenant(t) = base[t]
       /\ (frames'[t] # <<>> /\ Top(frames'[t]).kind = "mw_other")
            => get_current_tenant(t)' = base'[t]
       /\ (lastOp'.op = "exit" /\ lastOp'.task = t /\ lastOp'.arg[1] = "mw_other")
            => /\ get_current_tenant(t)' = base'[t]
               /\ lastOp'.arg[4] = 1 => contexts' = contexts]_vars

\* A task started inside a scope of tenant "a" was called with a
\* websocket scope; the application has just read the current tenant and
\* found "a".
C16_Witness ==
  /\ lastOp.op = "current"
  /\ frames[lastOp.task] # <<>>
  /\ Top(frames[lastOp.task]).kind = "mw_other"
  /\ scopes[lastOp.task] = <<>>
  /\ base[lastOp.task] = Some(<<"a">>)
  /\ lastOp.result = Some(<<"a">>)

\* ------------------------------------------------ spawned tasks (Spec)
\* C17: a task spawned by a parent that is inside a scope starts with the
\* parent's current identifier as its own current tenant; as long as it
\* has no scope of its own open it keeps that value, whatever the parent
\* does afterwards (leaving the scope included); and a step in which the
\* child enters or leaves a scope leaves the parent's current tenant as
\* it was.
C17_ChildInheritsAndKeeps ==
  [][/\ \A p, c \in Tasks :
          (lastOp'.op = "spawn" /\ lastOp'.task = p /\ lastOp'.arg = c)
            => /\ get_current_tenant(c)' = get_current_tenant(p)
               /\ base'[c] = get_current_tenant(p)
               /\ get_current_tenant(p)' = get_current_tenant(p)
     /\ \A c \in Tasks :
          /\ (Live(c) /\ base[c] # None /\ scopes[c] = <<>> /\ scopes'[c] = <<>>)
               => /\ get_current_tenant(c) = base[c]
                  /\ get_current_tenant(c)' = base[c]
          /\ (base[c] # None /\ scopes'[c] # scopes[c])
               => \A p \in Tasks \ {c} :
                    get_current_tenant(p)' = get_current_tenant(p)]_vars

\* A child spawned inside its parent's scope of tenant "a" has just read
\* the current tenant and found "a", after the parent left that scope and
\* is back to no tenant.
C17_Witness ==
  /\ lastOp.op = "current" /\ lastOp.result = Some(<<"a">>)
  /\ base[lastOp.task] = Some(<<"a">>)
  /\ scopes[lastOp.task] = <<>>
  /\ \E p \in Tasks \ {lastOp.task} :
       /\ Live(p) /\ base[p] = None /\ scopes[p] = <<>>
       /\ get_current_tenant(p) = None

\* ------------------------------------- direct writes to the slot (SpecRaw)
\* C18: whatever values the body of a tenant_context block wrote to the
\* slot with set_current_tenant, and however the body ended, once the
\* block has been left the task's current tenant is the value that was
\* current when the block was entered.
C18_ExitRestoresEntryValue ==
  (lastOp.op = "exit" /\ lastOp.arg[1] = "with")
    => get_current_tenant(lastOp.task) = lastOp.result

\* A block entered with "a" while "b" was current has just been left by
\* an exception; its body had cleared the slot, and "b" is current again.
C18_Witness ==
  /\ lastOp.op = "exit" /\ lastOp.arg[1] = "with"
  /\ lastOp.arg[2] = "exception" /\ lastOp.arg[4] = 1
  /\ lastOp.arg[3] = <<"a">>
  /\ lastOp.arg[5] = None
  /\ lastOp.result = Some(<<"b">>)
  /\ get_current_tenant(lastOp.task) = Some(<<"b">>)

\* C19: a call of require_tenant or get_tenant_filter leaves every
\* context as it was.  When require_tenant returns, what it returns is
\* not empty and is the caller's current tenant at the time of the call;
\* when get_tenant_filter returns, the predicate compares organization_id
\* with that non-empty identifier.
C19_ReturnsNonEmptyCurrent ==
  [][\A t \in Tasks :
       (lastOp'.op \in {"require_tenant", "get_tenant_filter"}
          /\ lastOp'.task = t)
         => /\ contexts' = contexts
            /\ (lastOp'.op = "require_tenant" /\ lastOp'.result[1] = "ok")
                 => /\ lastOp'.result[2] # <<>>
                    /\ Some(lastOp'.result[2]) = get_current_tenant(t)
            /\ (lastOp'.op = "get_tenant_filter" /\ lastOp'.result[1] = "ok")
                 => /\ lastOp'.result[2][3] = "organization_id"
                    /\ lastOp'.result[2][4] # <<>>
                    /\ Some(lastOp'.result[2][4]) = get_current_tenant(t)]_vars

\* The filter has just been built for tenant "b", which the task had
\* written to the slot itself, inside a block entered with "a".
C19_Witness ==
  /\ lastOp.op = "get_tenant_filter"
  /\ lastOp.result = Ok(Predicate("Order", <<"b">>))
  /\ scopes[lastOp.task] # <<>> /\ InnerId(lastOp.task) = <<"a">>
  /\ get_current_tenant(lastOp.task) = Some(<<"b">>)
====
